---- MODULE Spec2Model ----
(***************************************************************************)
(* POLYCORE: the game-state simulation of src/POLYCORE.py (class           *)
(* GameState) as a state machine.                                          *)
(*                                                                         *)
(* Representation of the program's numbers:                                *)
(*   - clock values (pygame.time.get_ticks) are integer milliseconds;      *)
(*   - score and high_score are floats in seconds in the source; here they *)
(*     are held in milliseconds (score = current_time - start_time), so    *)
(*     score/1000.0 is the source's value;                                 *)
(*   - difficulty_multiplier is held in units of 1/DIFF_UNIT;              *)
(*   - enemy velocities are fixed-point in units of 1/VSCALE pixel per     *)
(*     tick, enemy positions in units of 1/PSCALE pixel, PSCALE = 2*VSCALE *)
(*     so that the focus time factor 0.5 is exact;                         *)
(*   - the player's position and all sizes are whole pixels.               *)
(* Rendering, music and trail_points do not feed back into the simulation  *)
(* and are left out.                                                       *)
(***************************************************************************)
EXTENDS Integers, Sequences, FiniteSets, TLC

\* ---------------------------------------------------------------- constants
SCREEN_WIDTH == 1200
SCREEN_HEIGHT == 800
FPS == 60
PLAYER_SIZE == 12
PLAYER_SPEED == 5
DASH_SPEED == 100
DASH_COOLDOWN == 1000
FOCUS_COOLDOWN == 10000
PULSE_COOLDOWN == 3000
SHRINK_DURATION == 2000
SHRINK_COOLDOWN == 8000
FOCUS_DURATION == 3000
MAX_PULSE_USES == 5
PULSE_RANGE == 150
PULSE_FORCE == 200
PARTICLE_LIFE == 30
PARTICLES_PER_ENEMY == 5
PATTERN_PERIOD == 10000
OFFSCREEN_MARGIN == 100

\* Fixed-point resolution of the float fields Enemy.vx, Enemy.vy.
VSCALE == 2
\* Fixed-point resolution of the float fields Enemy.x, Enemy.y.
PSCALE == 2 * VSCALE
\* difficulty_multiplier = 1.0 + score / 30.0, score in milliseconds here.
DIFF_UNIT == 30 * 1000

Pattern == {"RANDOM", "SPIRAL", "WAVE", "CIRCLE", "ZIGZAG", "CROSS", "BURST", "ORBIT"}

\* ------------------------------------------------------------------- bounds
\* The clock is followed up to MaxTime milliseconds.
MaxTime == 24000
\* The enemy list grows to at most MaxEnemies enemies.
MaxEnemies == 2

\* -------------------------------------------------------------------- state
VARIABLES
  game,                \* the GameState object: a record of its fields, plus
                       \* score_file, the content of polycore_score.json
  now,                 \* pygame.time.get_ticks() during the current loop iteration
  pc,                  \* "loop" while run() iterates, "done" after it returned
  charges_after_pulse  \* history: pulse_uses right after the round's latest
                       \* successful pulse (MAX_PULSE_USES after reset_game)

vars == <<game, now, pc, charges_after_pulse>>

Max(a, b) == IF a >= b THEN a ELSE b
Min(a, b) == IF a <= b THEN a ELSE b
Abs(a) == IF a >= 0 THEN a ELSE -a

\* floor(sqrt(n)) by bisection on lo..hi.
RECURSIVE SqrtBetween(_, _, _)
SqrtBetween(n, lo, hi) ==
  IF lo >= hi THEN lo
  ELSE LET mid == (lo + hi + 1) \div 2
       IN IF mid * mid <= n THEN SqrtBetween(n, mid, hi)
          ELSE SqrtBetween(n, lo, mid - 1)

ISqrt(n) == SqrtBetween(n, 0, PSCALE * (SCREEN_WIDTH + SCREEN_HEIGHT))

\* ------------------------------------------------------------- persistence
\* score_file is the content of polycore_score.json: <<>> when there is no
\* file (or one json.load cannot read), <<n>> when it stores n under
\* "high_score".
NoFile == <<>>

load_high_score(score_file) ==
  IF score_file = NoFile THEN 0 ELSE score_file[1]

\* Variant: no except clause; what open() or json.dump raise ends run().
save_high_score_uncaught(self, save) ==
  IF save = "written" THEN [self EXCEPT !.score_file = <<self.high_score>>]
  ELSE [self EXCEPT !.running = FALSE]

\* The except clause swallows whatever open() or json.dump raise: the file is
\* written, left as it was (open raised), or left empty and so unreadable
\* (json.dump raised).
save_high_score(self, save) ==
  IF save = "written" THEN [self EXCEPT !.score_file = <<self.high_score>>]
  ELSE IF save = "truncated" THEN [self EXCEPT !.score_file = NoFile]
  ELSE self

\* ------------------------------------------------------------- construction
GameState(score_file) ==
  [ running |-> TRUE, game_active |-> FALSE, paused |-> FALSE,
    player_x |-> SCREEN_WIDTH \div 2, player_y |-> SCREEN_HEIGHT \div 2,
    player_size |-> PLAYER_SIZE, is_shrunk |-> FALSE,
    last_dash |-> 0, last_focus |-> 0, last_pulse |-> 0, last_shrink |-> 0,
    focus_active |-> FALSE, focus_end_time |-> 0, shrink_end_time |-> 0,
    pulse_uses |-> MAX_PULSE_USES,
    enemies |-> <<>>, score |-> 0, start_time |-> 0,
    high_score |-> load_high_score(score_file),
    difficulty_multiplier |-> DIFF_UNIT,
    spawn_timer |-> 0, pattern_timer |-> 0, current_pattern |-> "RANDOM",
    screen_shake |-> 0, particles |-> <<>>,
    score_file |-> score_file ]

\* Variant: the abilities' timestamps are carried into the new round.
reset_game_keeping_cooldowns(self, current_time) ==
  [self EXCEPT
    !.player_x = SCREEN_WIDTH \div 2,
    !.player_y = SCREEN_HEIGHT \div 2,
    !.player_size = PLAYER_SIZE,
    !.enemies = <<>>,
    !.particles = <<>>,
    !.score = 0,
    !.start_time = current_time,
    !.difficulty_multiplier = DIFF_UNIT,
    !.spawn_timer = 0,
    !.pattern_timer = 0,
    !.current_pattern = "RANDOM",
    !.focus_active = FALSE,
    !.is_shrunk = FALSE,
    !.pulse_uses = MAX_PULSE_USES,
    !.screen_shake = 0]

reset_game(self, current_time) ==
  [self EXCEPT
    !.player_x = SCREEN_WIDTH \div 2,
    !.player_y = SCREEN_HEIGHT \div 2,
    !.player_size = PLAYER_SIZE,
    !.enemies = <<>>,
    !.particles = <<>>,
    !.score = 0,
    !.start_time = current_time,
    !.difficulty_multiplier = DIFF_UNIT,
    !.spawn_timer = 0,
    !.pattern_timer = 0,
    !.current_pattern = "RANDOM",
    !.last_dash = 0,
    !.last_focus = 0,
    !.last_pulse = 0,
    !.last_shrink = 0,
    !.focus_active = FALSE,
    !.is_shrunk = FALSE,
    !.pulse_uses = MAX_PULSE_USES,
    !.screen_shake = 0]

\* ------------------------------------------------------------ handle_input
\* keys: the set of held keys among LEFT, RIGHT, UP, DOWN, SHIFT.
\* Variant: the dash ignores its cooldown.
DashReadyAlways(self, keys, current_time) == "SHIFT" \in keys

DashReady(self, keys, current_time) ==
  "SHIFT" \in keys /\ current_time - self.last_dash > DASH_COOLDOWN

handle_input(self, keys, current_time) ==
  LET dash  == DashReady(self, keys, current_time)
      speed == IF dash THEN DASH_SPEED ELSE PLAYER_SPEED
      x1 == IF "LEFT" \in keys
            THEN Max(self.player_size, self.player_x - speed) ELSE self.player_x
      x2 == IF "RIGHT" \in keys
            THEN Min(SCREEN_WIDTH - self.player_size, x1 + speed) ELSE x1
      y1 == IF "UP" \in keys
            THEN Max(self.player_size, self.player_y - speed) ELSE self.player_y
      y2 == IF "DOWN" \in keys
            THEN Min(SCREEN_HEIGHT - self.player_size, y1 + speed) ELSE y1
  IN [self EXCEPT
       !.last_dash = IF dash THEN current_time ELSE @,
       !.screen_shake = IF dash THEN 5 ELSE @,
       !.player_x = x2,
       !.player_y = y2]

\* ----------------------------------------------------------- pulse_enemies
\* Squared distance of an enemy to the player's centre, in (1/PSCALE px)^2.
Dist2(self, e) ==
  LET dx == e.x - self.player_x * PSCALE
      dy == e.y - self.player_y * PSCALE
  IN dx * dx + dy * dy

\* Variant: an enemy exactly at the pulse range is reached too.
InPulseRangeAtEdge(self, e) ==
  Dist2(self, e) <= (PULSE_RANGE * PSCALE) * (PULSE_RANGE * PSCALE)

InPulseRange(self, e) ==
  Dist2(self, e) < (PULSE_RANGE * PSCALE) * (PULSE_RANGE * PSCALE)

\* (dx / distance) * (200 / distance), in 1/VSCALE px per tick.
PulseKick(d, d2) == (PULSE_FORCE * d * PSCALE * VSCALE) \div d2

PulsedEnemy(self, e) ==
  LET dx == e.x - self.player_x * PSCALE
      dy == e.y - self.player_y * PSCALE
      d2 == Dist2(self, e)
  IN IF InPulseRange(self, e) /\ d2 > 0
     THEN [e EXCEPT !.vx = @ + PulseKick(dx, d2), !.vy = @ + PulseKick(dy, d2)]
     ELSE e

NewParticles(n) == [i \in 1..n |-> [life |-> PARTICLE_LIFE]]

pulse_enemies(self) ==
  LET hit == Cardinality({i \in DOMAIN self.enemies : InPulseRange(self, self.enemies[i])})
  IN [self EXCEPT
       !.enemies = [i \in DOMAIN self.enemies |-> PulsedEnemy(self, self.enemies[i])],
       !.particles = @ \o NewParticles(PARTICLES_PER_ENEMY * hit)]

\* --------------------------------------------------------- handle_abilities
\* Variant: the focus cooldown test with >= instead of >.
FocusReadyAtCooldown(self, current_time) ==
  current_time - self.last_focus >= FOCUS_COOLDOWN

FocusReady(self, current_time) ==
  current_time - self.last_focus > FOCUS_COOLDOWN

\* Variant: the pulse test without the charge count.
PulseReadyUncounted(self, current_time) ==
  current_time - self.last_pulse > PULSE_COOLDOWN

PulseReady(self, current_time) ==
  self.pulse_uses > 0 /\ current_time - self.last_pulse > PULSE_COOLDOWN

\* Variant: the shrink trigger looks at the cooldown only.
ShrinkReadyWhileShrunk(self, current_time) ==
  current_time - self.last_shrink > SHRINK_COOLDOWN

ShrinkReady(self, current_time) ==
  ~self.is_shrunk /\ current_time - self.last_shrink > SHRINK_COOLDOWN

handle_abilities(self, key, current_time) ==
  IF key = "K_SPACE" THEN
    IF FocusReady(self, current_time)
    THEN [self EXCEPT !.focus_active = TRUE,
                      !.focus_end_time = current_time + FOCUS_DURATION,
                      !.last_focus = current_time]
    ELSE self
  ELSE IF key = "K_e" THEN
    IF PulseReady(self, current_time)
    THEN [pulse_enemies(self) EXCEPT !.pulse_uses = @ - 1,
                                     !.last_pulse = current_time,
                                     !.screen_shake = 10]
    ELSE self
  ELSE IF key = "K_q" THEN
    IF ShrinkReady(self, current_time)
    THEN [self EXCEPT !.is_shrunk = TRUE,
                      !.shrink_end_time = current_time + SHRINK_DURATION,
                      !.last_shrink = current_time,
                      !.player_size = PLAYER_SIZE \div 2]
    ELSE self
  ELSE self

\* --------------------------------------------------------- update_abilities
\* Variant: focus expires as soon as the clock reaches the end-time.
FocusExpiredAtEnd(self, current_time) ==
  self.focus_active /\ current_time >= self.focus_end_time

FocusExpired(self, current_time) ==
  self.focus_active /\ current_time > self.focus_end_time

\* Variant: the shrink expires as soon as the clock reaches the end-time.
ShrinkExpiredAtEnd(self, current_time) ==
  self.is_shrunk /\ current_time >= self.shrink_end_time

ShrinkExpired(self, current_time) ==
  self.is_shrunk /\ current_time > self.shrink_end_time

RegenDue(self, current_time) ==
  self.pulse_uses < MAX_PULSE_USES
    /\ current_time - self.last_pulse > PULSE_COOLDOWN * 2

\* Variant: regeneration does not look at the charge count.
update_abilities_uncapped(self, current_time) ==
  [self EXCEPT
    !.focus_active = IF FocusExpired(self, current_time) THEN FALSE ELSE @,
    !.is_shrunk = IF ShrinkExpired(self, current_time) THEN FALSE ELSE @,
    !.player_size = IF ShrinkExpired(self, current_time) THEN PLAYER_SIZE ELSE @,
    !.pulse_uses = IF current_time - self.last_pulse > PULSE_COOLDOWN * 2
                   THEN @ + 1 ELSE @]

update_abilities(self, current_time) ==
  [self EXCEPT
    !.focus_active = IF FocusExpired(self, current_time) THEN FALSE ELSE @,
    !.is_shrunk = IF ShrinkExpired(self, current_time) THEN FALSE ELSE @,
    !.player_size = IF ShrinkExpired(self, current_time) THEN PLAYER_SIZE ELSE @,
    !.pulse_uses = IF RegenDue(self, current_time)
                   THEN Min(MAX_PULSE_USES, @ + 1) ELSE @]

\* -------------------------------------------------------------- spawn_enemy
\* draw: the random values one tick may consume, a record
\*   unit    <<c, s>>: 5*cos(angle), 5*sin(angle) of the CIRCLE angle
\*           (random.uniform(0, 2*pi)); also of the SPIRAL angle
\*           (get_ticks() * 0.01) % (2*pi) and, its s, of the WAVE sine
\*           sin(get_ticks() * 0.005), which are functions of the clock that
\*           take every direction as the clock runs
\*   edge    random.choice([0, SCREEN_WIDTH])
\*   side    random.randint(0, 3)
\*   ax, ay  random.randint(0, SCREEN_WIDTH), random.randint(0, SCREEN_HEIGHT)
\*   speed   random.uniform(1, 3), in 1/VSCALE px per tick
\*   jx, jy  random.uniform(-0.5, 0.5), in 1/VSCALE px per tick
\*   rvx,rvy random.uniform(-2, 2), in 1/VSCALE px per tick
\*   size    random.uniform(15, 40), in px
\*   pattern random.choice(list(Pattern))
\*   save    what writing polycore_score.json does: "written", "unchanged"
\*           (open raised) or "truncated" (json.dump raised after open
\*           emptied the file)
SpawnPosition(pattern, draw) ==
  IF pattern = "SPIRAL" THEN
    [x |-> (SCREEN_WIDTH \div 2) * PSCALE + (draw.unit[1] * 400 * PSCALE) \div 5,
     y |-> (SCREEN_HEIGHT \div 2) * PSCALE + (draw.unit[2] * 400 * PSCALE) \div 5]
  ELSE IF pattern = "WAVE" THEN
    [x |-> draw.edge * PSCALE,
     y |-> (SCREEN_HEIGHT \div 2) * PSCALE + (draw.unit[2] * 200 * PSCALE) \div 5]
  ELSE IF pattern = "CIRCLE" THEN
    [x |-> (SCREEN_WIDTH \div 2) * PSCALE + (draw.unit[1] * 500 * PSCALE) \div 5,
     y |-> (SCREEN_HEIGHT \div 2) * PSCALE + (draw.unit[2] * 500 * PSCALE) \div 5]
  ELSE IF draw.side = 0 THEN [x |-> draw.ax * PSCALE, y |-> (-50) * PSCALE]
  ELSE IF draw.side = 1 THEN [x |-> (SCREEN_WIDTH + 50) * PSCALE, y |-> draw.ay * PSCALE]
  ELSE IF draw.side = 2 THEN [x |-> draw.ax * PSCALE, y |-> (SCREEN_HEIGHT + 50) * PSCALE]
  ELSE [x |-> (-50) * PSCALE, y |-> draw.ay * PSCALE]

\* Velocity toward the player: (dx / distance) * speed + jitter, with
\* speed = random.uniform(1, 3) * difficulty_multiplier.
SpawnVelocity(self, pos, draw) ==
  LET dx == self.player_x * PSCALE - pos.x
      dy == self.player_y * PSCALE - pos.y
      distance == ISqrt(dx * dx + dy * dy)
      speed == (draw.speed * self.difficulty_multiplier) \div DIFF_UNIT
  IN IF distance > 0
     THEN [vx |-> (dx * speed) \div distance + draw.jx,
           vy |-> (dy * speed) \div distance + draw.jy]
     ELSE [vx |-> draw.rvx, vy |-> draw.rvy]

spawn_enemy(self, draw) ==
  LET pos == SpawnPosition(self.current_pattern, draw)
      vel == SpawnVelocity(self, pos, draw)
  IN [self EXCEPT !.enemies =
        Append(@, [x |-> pos.x, y |-> pos.y, vx |-> vel.vx, vy |-> vel.vy,
                   size |-> draw.size])]

\* ----------------------------------------------------------- update_enemies
\* Variant: enemies ignore focus.
TimeFactor2Unfocused(self) == 2

\* Twice the time factor: 1 for 0.5 (focus), 2 for 1.0.
TimeFactor2(self) == IF self.focus_active THEN 1 ELSE 2

MovedEnemy(self, e) ==
  [e EXCEPT !.x = @ + e.vx * TimeFactor2(self),
            !.y = @ + e.vy * TimeFactor2(self)]

\* Variant: an enemy exactly on the margin is removed too.
OffScreenAtMargin(e) ==
  \/ e.x <= (-OFFSCREEN_MARGIN) * PSCALE
  \/ e.x >= (SCREEN_WIDTH + OFFSCREEN_MARGIN) * PSCALE
  \/ e.y <= (-OFFSCREEN_MARGIN) * PSCALE
  \/ e.y >= (SCREEN_HEIGHT + OFFSCREEN_MARGIN) * PSCALE

OffScreen(e) ==
  \/ e.x < (-OFFSCREEN_MARGIN) * PSCALE
  \/ e.x > (SCREEN_WIDTH + OFFSCREEN_MARGIN) * PSCALE
  \/ e.y < (-OFFSCREEN_MARGIN) * PSCALE
  \/ e.y > (SCREEN_HEIGHT + OFFSCREEN_MARGIN) * PSCALE

update_enemies(self) ==
  LET moved == [i \in DOMAIN self.enemies |-> MovedEnemy(self, self.enemies[i])]
      OnScreen(e) == ~OffScreen(e)
  IN [self EXCEPT !.enemies = SelectSeq(moved, OnScreen)]

\* --------------------------------------------------------- check_collisions
\* Variant: the full enemy size instead of 0.6 of it.
CollisionDistance5FullSize(self, e) == PSCALE * (5 * self.player_size + 5 * e.size)

\* 5 * PSCALE * (player_radius + enemy.size * 0.6)
CollisionDistance5(self, e) == PSCALE * (5 * self.player_size + 3 * e.size)

\* Variant: touching (distance = collision_distance) counts as a hit.
CollidesOrTouches(self, e) ==
  /\ Dist2(self, e) <= CollisionDistance5(self, e) * CollisionDistance5(self, e)
  /\ 25 * Dist2(self, e) <= CollisionDistance5(self, e) * CollisionDistance5(self, e)

\* distance < collision_distance, both sides squared and scaled by 5 * PSCALE
\* (the first conjunct keeps the product of the second within 32 bits).
Collides(self, e) ==
  /\ Dist2(self, e) < CollisionDistance5(self, e) * CollisionDistance5(self, e)
  /\ 25 * Dist2(self, e) < CollisionDistance5(self, e) * CollisionDistance5(self, e)

\* Variant: the high score is overwritten without comparing.
HighScoreAlways(self) == TRUE

HighScoreBeaten(self) == self.score > self.high_score

check_collisions(self, save) ==
  IF \E i \in DOMAIN self.enemies : Collides(self, self.enemies[i])
  THEN LET s1 == IF HighScoreBeaten(self)
                 THEN save_high_score([self EXCEPT !.high_score = self.score], save)
                 ELSE self
       IN [s1 EXCEPT !.game_active = FALSE]
  ELSE self

\* -------------------------------------------------------- update_game_logic
\* max(200, 1000 - int(self.score * 10)), score in milliseconds here.
SpawnRate(score) == Max(200, 1000 - (score \div 100))

\* Variant: a spawn is due as soon as the interval has elapsed.
SpawnDueAtInterval(self, current_time) ==
  current_time - self.spawn_timer >= SpawnRate(self.score)

SpawnDue(self, current_time) ==
  current_time - self.spawn_timer > SpawnRate(self.score)

\* Variant: the pattern is re-drawn once the period has elapsed.
PatternDueAtPeriod(self, current_time) ==
  current_time - self.pattern_timer >= PATTERN_PERIOD

PatternDue(self, current_time) ==
  current_time - self.pattern_timer > PATTERN_PERIOD

\* Variant: a particle is removed one tick after its life reached 0.
AgedParticlesLate(particles) ==
  LET aged == [i \in DOMAIN particles |-> [particles[i] EXCEPT !.life = @ - 1]]
      Alive(p) == ~(p.life < 0)
  IN SelectSeq(aged, Alive)

AgedParticles(particles) ==
  LET aged == [i \in DOMAIN particles |-> [particles[i] EXCEPT !.life = @ - 1]]
      Alive(p) == ~(p.life <= 0)
  IN SelectSeq(aged, Alive)

\* Variant: the score is not taken relative to the round's start.
ClockScore(self, current_time) == current_time

\* (current_time - self.start_time) / 1000.0, in milliseconds.
ElapsedScore(self, current_time) == current_time - self.start_time

update_game_logic(self, current_time, draw) ==
  IF ~self.game_active THEN self
  ELSE
    LET s1 == [self EXCEPT
                 !.score = ElapsedScore(self, current_time),
                 !.difficulty_multiplier = DIFF_UNIT + (current_time - self.start_time)]
        s2 == IF SpawnDue(s1, current_time)
              THEN [spawn_enemy(s1, draw) EXCEPT !.spawn_timer = current_time]
              ELSE s1
        s3 == IF PatternDue(s2, current_time)
              THEN [s2 EXCEPT !.current_pattern = draw.pattern,
                              !.pattern_timer = current_time]
              ELSE s2
        s4 == update_abilities(s3, current_time)
        s5 == update_enemies(s4)
        s6 == check_collisions(s5, draw.save)
    IN [s6 EXCEPT
         !.particles = AgedParticles(@),
         !.screen_shake = IF @ > 0 THEN @ - 1 ELSE @]

\* ---------------------------------------------------------------------- run
\* One event of pygame.event.get(): "QUIT", or a KEYDOWN of the named key
\* ("K_other": any key the loop does not know).
KeyEvents == {"K_ESCAPE", "K_RETURN", "K_p", "K_m", "K_SPACE", "K_e", "K_q", "K_other"}

\* Variant: the pause key toggles paused whether or not a round is active.
handle_event_pause_anytime(self, ev, current_time) ==
  IF ev = "QUIT" THEN [self EXCEPT !.running = FALSE]
  ELSE
    LET s1 == IF ev = "K_ESCAPE" THEN [self EXCEPT !.running = FALSE]
              ELSE IF ev = "K_RETURN" THEN
                IF ~self.game_active
                THEN [reset_game(self, current_time) EXCEPT !.game_active = TRUE]
                ELSE self
              ELSE IF ev = "K_p"
                THEN [self EXCEPT !.paused = ~self.paused]
              ELSE self
    IN IF s1.game_active /\ ~s1.paused
       THEN handle_abilities(s1, ev, current_time)
       ELSE s1

handle_event(self, ev, current_time) ==
  IF ev = "QUIT" THEN [self EXCEPT !.running = FALSE]
  ELSE
    LET s1 == IF ev = "K_ESCAPE" THEN [self EXCEPT !.running = FALSE]
              ELSE IF ev = "K_RETURN" THEN
                IF ~self.game_active
                THEN [reset_game(self, current_time) EXCEPT !.game_active = TRUE]
                ELSE self
              ELSE IF ev = "K_p" /\ self.game_active
                THEN [self EXCEPT !.paused = ~self.paused]
              ELSE self
    IN IF s1.game_active /\ ~s1.paused
       THEN handle_abilities(s1, ev, current_time)
       ELSE s1

\* Variant: the update runs in a paused round too.
frame_while_paused(self, keys, current_time, draw) ==
  IF self.game_active
  THEN update_game_logic(handle_input(self, keys, current_time), current_time, draw)
  ELSE self

\* The body of one loop iteration after the events: input and update.
frame(self, keys, current_time, draw) ==
  IF self.game_active /\ ~self.paused
  THEN update_game_logic(handle_input(self, keys, current_time), current_time, draw)
  ELSE self

\* History: the charge count right after the round's latest successful pulse.
ChargesAfterPulse(old, new, prev) ==
  IF new.last_pulse # old.last_pulse
  THEN (IF new.last_pulse = 0 THEN MAX_PULSE_USES ELSE new.pulse_uses)
  ELSE IF new.start_time # old.start_time THEN MAX_PULSE_USES
  ELSE prev

\* One event of the iteration's pygame.event.get() is handled.
RunEvent(ev) ==
  /\ pc = "loop"
  /\ game' = handle_event(game, ev, now)
  /\ charges_after_pulse' = ChargesAfterPulse(game, game', charges_after_pulse)
  /\ UNCHANGED <<now, pc>>

\* The events of the iteration are done: input and update, then draw and
\* clock.tick(FPS), which returns d milliseconds later.  The loop condition
\* is read next, so an iteration that saw QUIT or ESC is the last.
RunFrame(keys, d, draw, horizon) ==
  /\ pc = "loop"
  /\ now + d <= horizon
  /\ game' = frame(game, keys, now, draw)
  /\ Len(game'.enemies) <= Max(MaxEnemies, Len(game.enemies))
  /\ now' = now + d
  /\ pc' = IF game.running THEN "loop" ELSE "done"
  /\ UNCHANGED charges_after_pulse

\* A step in which update_game_logic ran its body (an active, unpaused tick).
UpdateTick == game.game_active /\ ~game.paused /\ now' # now

\* ------------------------------------------------------------ specification
\* Spec: the program from its start, on a clock that advances in steps of
\* ClockStep between loop iterations; ability cooldowns and durations are
\* multiples of it, so every comparison is met below, at and above its
\* threshold.  The events and the update of one
\* iteration read the same clock value.
ClockStep == PULSE_COOLDOWN \div 3

\* One enemy per spawn, from the middle of the top edge toward the player.
SteadyDraw ==
  [unit |-> <<5, 0>>, edge |-> 0, side |-> 0,
   ax |-> SCREEN_WIDTH \div 2, ay |-> SCREEN_HEIGHT \div 2,
   speed |-> 2 * VSCALE, jx |-> 0, jy |-> 0, rvx |-> 0, rvy |-> 0,
   size |-> 15, pattern |-> "RANDOM", save |-> "written"]

Init ==
  /\ game = GameState(NoFile)
  /\ now = 0
  /\ pc = "loop"
  /\ charges_after_pulse = MAX_PULSE_USES

\* The abilities used since reset_game (their timestamps are 0 until used).
UsedAbilities(self) ==
  {k \in {"SHIFT", "K_SPACE", "K_e", "K_q"} :
     \/ k = "SHIFT" /\ self.last_dash # 0
     \/ k = "K_SPACE" /\ self.last_focus # 0
     \/ k = "K_e" /\ self.last_pulse # 0
     \/ k = "K_q" /\ self.last_shrink # 0}

\* The player of Spec uses one ability per round: key k is pressed only in a
\* round that has used no other ability.
OnlyAbility(k) == UsedAbilities(game) \subseteq {k}

\* In the menu the clock runs on until the player starts a round: MenuWait
\* is long enough for every cooldown to have elapsed at the round's start.
MenuWait == FOCUS_COOLDOWN + ClockStep

Next ==
  \/ \E ev \in {"K_RETURN", "K_p"} : RunEvent(ev)
  \/ \E ev \in {"K_SPACE", "K_e", "K_q"} : OnlyAbility(ev) /\ RunEvent(ev)
  \/ ~game.game_active /\ RunFrame({}, MenuWait, SteadyDraw, MaxTime)
  \/ game.game_active /\ RunFrame({}, ClockStep, SteadyDraw, MaxTime)
  \/ OnlyAbility("SHIFT") /\ game.game_active /\ RunFrame({"SHIFT"}, ClockStep, SteadyDraw, MaxTime)

Spec == Init /\ [][Next]_vars

\* ------------------------------------------------------- a round about to end
\* The second specification follows a round at the frame rate, from the
\* moment its first enemy is about to reach the player.  Its initial state is
\* computed by the frames of the opening: the program starts, return is
\* pressed at clock MenuWait, and 62 iterations of 1000 / FPS ms follow.  In
\* the first the player dashes left and the first enemy is spawned on the
\* left edge at the player's height, heading right at 3.5 px per tick; the
\* player keeps walking left for 58 ticks and then stands.  The next spawn
\* (the second enemy) is due in the first tick of the specification.
FrameStep == 1000 \div FPS

NearTicks == 5

NearStart == MenuWait

NearDraw(size) ==
  [SteadyDraw EXCEPT !.side = 3, !.ay = SCREEN_HEIGHT \div 2,
                     !.speed = 3 * VSCALE, !.jx = VSCALE \div 2, !.size = size]

\* n iterations with the same held keys, the first at clock value t.
RECURSIVE Held(_, _, _, _, _)
Held(self, keys, t, n, draw) ==
  IF n = 0 THEN self
  ELSE LET next == frame(self, keys, t, draw)
       IN IF next.running
          THEN Held(next, keys, t + FrameStep, n - 1, draw)
          ELSE next

Opening(score_file, size) ==
  LET s0 == handle_event(GameState(score_file), "K_RETURN", NearStart)
      s1 == Held(s0, {"LEFT", "SHIFT"}, NearStart, 1, NearDraw(size))
      s2 == Held(s1, {"LEFT"}, NearStart + FrameStep, 58, NearDraw(size))
  IN Held(s2, {}, NearStart + 59 * FrameStep, 3, NearDraw(size))

\* The score of the round when it ends on its 65th tick.
NearTie == 64 * FrameStep

NearFiles == {NoFile, <<NearTie>>, <<40 * 1000>>}

NearSizes == {15, 40}

NearHorizon == NearStart + (62 + NearTicks) * FrameStep

InitNear ==
  /\ \E f \in NearFiles, size \in NearSizes : game = Opening(f, size)
  /\ now = NearStart + 62 * FrameStep
  /\ pc = "loop"
  /\ charges_after_pulse = MAX_PULSE_USES

NextNear ==
  \/ \E ev \in {"K_RETURN", "K_p", "K_SPACE", "K_q"} : RunEvent(ev)
  \/ \E keys \in {{}, {"LEFT"}} : RunFrame(keys, FrameStep, SteadyDraw, NearHorizon)

SpecNear == InitNear /\ [][NextNear]_vars

\* ------------------------------------------------- the head-on scenario round
\* The third specification follows one round with a stationary player and a
\* single enemy of size 40 placed 200 px to the right of the player, moving
\* left at 5 px per tick.  Return is pressed at a clock value within the
\* program's first second, so that no spawn is due while the scenario runs;
\* the update of that iteration is the first tick, and tick k + 1 runs at
\* start_time + floor(k * 1000 / FPS).
ScenarioRuns == 4

ScenarioTicks == 40

ScenarioStarts == 400 .. (400 + ScenarioRuns - 1)

ScenarioEnemy(self) ==
  [x |-> (self.player_x + 200) * PSCALE, y |-> self.player_y * PSCALE,
   vx |-> (-5) * VSCALE, vy |-> 0, size |-> 40]

ScenarioGame(t) ==
  LET s0 == handle_event(GameState(NoFile), "K_RETURN", t)
  IN [s0 EXCEPT !.enemies = <<ScenarioEnemy(s0)>>]

TickClock(self, k) == self.start_time + (k * 1000) \div FPS

\* The number of iterations of the scenario round so far.
ScenarioTick ==
  CHOOSE k \in 0 .. (ScenarioTicks + 1) : TickClock(game, k) = now

InitScenario ==
  /\ \E t \in ScenarioStarts : game = ScenarioGame(t) /\ now = t
  /\ pc = "loop"
  /\ charges_after_pulse = MAX_PULSE_USES

NextScenario ==
  RunFrame({}, TickClock(game, ScenarioTick + 1) - now, SteadyDraw,
           TickClock(game, ScenarioTicks))

SpecScenario == InitScenario /\ [][NextScenario]_vars

\* ------------------------------------------------- a round in the corner
\* The fourth specification follows a round at the frame rate while an enemy
\* drifts out of the screen.  Its initial state is computed by the frames of
\* the opening: return is pressed at clock MenuWait; in the first iteration
\* the player dashes toward the lower left corner and the first enemy is
\* spawned over the upper right corner; the player walks on into the corner;
\* the second enemy is spawned in iteration 63 on the left edge at the top,
\* where the jitter of -0.5 outweighs its speed toward the player, so that it
\* drifts left by half a pixel per tick; a third one follows it in iteration
\* 125.  After iteration 160 the second enemy is one pixel inside the margin.
EdgeTicks == 6

EdgeDrawFirst == [SteadyDraw EXCEPT !.ax = SCREEN_WIDTH, !.speed = VSCALE]

EdgeDrawDrift ==
  [SteadyDraw EXCEPT !.side = 3, !.ay = 0, !.speed = VSCALE,
                     !.jx = -(VSCALE \div 2)]

OpeningEdge ==
  LET s0 == handle_event(GameState(NoFile), "K_RETURN", NearStart)
      s1 == Held(s0, {"LEFT", "DOWN", "SHIFT"}, NearStart, 1, EdgeDrawFirst)
      s2 == Held(s1, {"LEFT", "DOWN"}, NearStart + FrameStep, 61, EdgeDrawFirst)
  IN Held(s2, {"LEFT", "DOWN"}, NearStart + 62 * FrameStep, 98, EdgeDrawDrift)

EdgeHorizon == NearStart + (160 + EdgeTicks) * FrameStep

\* Held keys of the iterations at the edge.
EdgeKeys ==
  {{}, {"LEFT", "DOWN"}, {"SHIFT"}, {"SHIFT", "RIGHT"}, {"SHIFT", "UP", "LEFT"},
   {"LEFT", "RIGHT", "SHIFT"}}

InitEdge ==
  /\ game = OpeningEdge
  /\ now = NearStart + 160 * FrameStep
  /\ pc = "loop"
  /\ charges_after_pulse = MAX_PULSE_USES

NextEdge ==
  \/ \E ev \in {"K_p", "K_SPACE"} : RunEvent(ev)
  \/ \E keys \in EdgeKeys : RunFrame(keys, FrameStep, SteadyDraw, EdgeHorizon)

SpecEdge == InitEdge /\ [][NextEdge]_vars

\* ------------------------------------------------ a round's second spawn
\* The fifth specification follows a round around its second spawn, with
\* iterations that take between 1000 / FPS ms and twice that (clock.tick
\* waits for the frame time to be over and returns later when the iteration
\* was slow).  Its initial state is computed by the frames of the opening:
\* return at clock MenuWait and 60 iterations of 1000 / FPS ms with no key
\* held; the first of them spawned the first enemy.
SpawnFrames == 4

OpeningSpawn ==
  Held(handle_event(GameState(NoFile), "K_RETURN", NearStart),
       {}, NearStart, 60, SteadyDraw)

FrameTimes == FrameStep .. (2 * FrameStep + 1)

SpawnHorizon == NearStart + (60 + SpawnFrames) * FrameStep

InitSpawn ==
  /\ game = OpeningSpawn
  /\ now = NearStart + 60 * FrameStep
  /\ pc = "loop"
  /\ charges_after_pulse = MAX_PULSE_USES

NextSpawn ==
  \E d \in FrameTimes : RunFrame({}, d, SteadyDraw, SpawnHorizon)

SpecSpawn == InitSpawn /\ [][NextSpawn]_vars

\* ---------------------------------------------------- sessions with patterns
\* The sixth specification follows whole sessions from the program's start,
\* on a clock grid as in Spec, with every outcome of the pattern draw and four
\* outcomes of the position draws of spawn_enemy; the window may be closed
\* and escape pressed.  The SPIRAL angle and the WAVE phase are functions of
\* the clock in the code; here they are among the drawn directions.
Angles == <<<<5, 0>>, <<3, 4>>, <<0, -5>>, <<-4, 3>>>>

PatternOrder ==
  <<"RANDOM", "SPIRAL", "WAVE", "CIRCLE", "ZIGZAG", "CROSS", "BURST", "ORBIT">>

\* The i-th draw: the i-th pattern, with the (i mod 4)-th direction, edge
\* and side.
PatternDraw(i) ==
  [SteadyDraw EXCEPT !.pattern = PatternOrder[i],
                     !.unit = Angles[(i % 4) + 1],
                     !.edge = (i % 2) * SCREEN_WIDTH,
                     !.side = i % 4]

PatternDraws == {PatternDraw(i) : i \in DOMAIN PatternOrder}

\* An iteration of a round of a session takes two clock steps.
SessionStep == 2 * ClockStep

\* A session is followed until the clock passes MaxTime.
SessionHorizon == MaxTime + ClockStep

InitSession ==
  /\ game = GameState(NoFile)
  /\ now = 0
  /\ pc = "loop"
  /\ charges_after_pulse = MAX_PULSE_USES

NextSession ==
  \/ \E ev \in {"K_RETURN", "K_p", "K_ESCAPE", "QUIT"} : RunEvent(ev)
  \/ ~game.game_active /\ RunFrame({}, MenuWait, SteadyDraw, SessionHorizon)
  \/ game.game_active /\ \E draw \in PatternDraws : RunFrame({}, SessionStep, draw, SessionHorizon)

SpecSession == InitSession /\ [][NextSession]_vars

\* ---------------------------------------------------- round ends and saves
\* The seventh specification follows the rounds of SpecNear with every
\* outcome of save_high_score at the round's end: the file is written, open()
\* raises, or json.dump raises.
SaveOutcomes == {"written", "unchanged", "truncated"}

SaveDraw(save) == [SteadyDraw EXCEPT !.save = save]

NextSave ==
  \/ RunEvent("K_RETURN")
  \/ \E keys \in {{}, {"LEFT"}}, save \in SaveOutcomes :
        RunFrame(keys, FrameStep, SaveDraw(save), NearHorizon)

SpecSave == InitNear /\ [][NextSave]_vars

\* ------------------------------------------------------ a round with a pulse
\* The eighth specification follows a round at the frame rate while its
\* first enemy comes into pulse range, with the pulse key pressed at any
\* iteration.  Its initial state is computed by the frames of the opening of
\* SpecNear cut after 46 iterations, when that enemy is 164 px to the left
\* of the player; it nears by 3.5 px per tick, and the second enemy is
\* spawned far from the player in the 17th tick of the specification.
PulseTicks == 44

OpeningPulse ==
  LET s0 == handle_event(GameState(NoFile), "K_RETURN", NearStart)
      s1 == Held(s0, {"LEFT", "SHIFT"}, NearStart, 1, NearDraw(15))
  IN Held(s1, {"LEFT"}, NearStart + FrameStep, 45, NearDraw(15))

PulseHorizon == NearStart + (46 + PulseTicks) * FrameStep

InitPulse ==
  /\ game = OpeningPulse
  /\ now = NearStart + 46 * FrameStep
  /\ pc = "loop"
  /\ charges_after_pulse = MAX_PULSE_USES

NextPulse ==
  \/ RunEvent("K_e")
  \/ RunFrame({}, FrameStep, SteadyDraw, PulseHorizon)

SpecPulse == InitPulse /\ [][NextPulse]_vars

\* ------------------------------------------------- keys in an idle round
\* The ninth specification follows the rounds of SpecNear that start with no
\* score file, with every ability key pressed and shift held at any
\* iteration, in a running round as well as in a paused or an ended one.
IdleKeys == {{}, {"SHIFT", "RIGHT"}}

InitIdle ==
  /\ game = Opening(NoFile, 40)
  /\ now = NearStart + 62 * FrameStep
  /\ pc = "loop"
  /\ charges_after_pulse = MAX_PULSE_USES

NextIdle ==
  \/ \E ev \in {"K_RETURN", "K_p", "K_SPACE", "K_e", "K_q"} : RunEvent(ev)
  \/ \E keys \in IdleKeys : RunFrame(keys, FrameStep, SteadyDraw, NearHorizon)

SpecIdle == InitIdle /\ [][NextIdle]_vars

\* ------------------------------------------------- a round and its restart
\* The tenth specification follows a round to its end and the round started
\* after it.  The first round starts at clock EarlyStart, before the
\* cooldowns of pulse, shrink and focus have elapsed, or at NearStart, after
\* all of them, and goes as the opening of SpecNear does with an enemy of
\* size 40, with the pulse key pressed at its start (a pulse that reaches no
\* enemy when it is accepted); the enemy reaches the player some iterations
\* into the specification.
RestartTicks == 8

EarlyStart == 2 * DASH_COOLDOWN

RestartStarts == {EarlyStart, NearStart}

OpeningRestart(start) ==
  LET s0 == handle_event(GameState(NoFile), "K_RETURN", start)
      s1 == handle_event(s0, "K_e", start)
      s2 == Held(s1, {"LEFT", "SHIFT"}, start, 1, NearDraw(40))
      s3 == Held(s2, {"LEFT"}, start + FrameStep, 58, NearDraw(40))
  IN Held(s3, {}, start + 59 * FrameStep, 3, NearDraw(40))

\* The session started at the latest start not after the clock value.
RestartHorizon(clock) ==
  (IF clock < NearStart THEN EarlyStart ELSE NearStart)
    + (62 + RestartTicks) * FrameStep

InitRestart ==
  /\ \E start \in RestartStarts :
       /\ game = OpeningRestart(start)
       /\ now = start + 62 * FrameStep
       /\ charges_after_pulse = game.pulse_uses
  /\ pc = "loop"

NextRestart ==
  \/ \E ev \in {"K_RETURN", "K_SPACE", "K_e", "K_q"} : RunEvent(ev)
  \/ \E keys \in {{}, {"SHIFT"}} :
        RunFrame(keys, FrameStep, SteadyDraw, RestartHorizon(now))

SpecRestart == InitRestart /\ [][NextRestart]_vars

\* ------------------------------------------------ a shrunk round at the wall
\* The eleventh specification follows a round at the frame rate around the
\* expiry of a shrink.  Its initial state is computed by the frames of the
\* opening: return and the shrink key are pressed at clock MenuWait, and 125
\* iterations follow with the down key held, in which the player, shrunk,
\* walks down to the bottom of the screen and three enemies are spawned over
\* the top.  The shrink ends at clock MenuWait + SHRINK_DURATION, the clock
\* value of the specification's first iteration.
WallTicks == 5

OpeningWall ==
  LET s0 == handle_event(GameState(NoFile), "K_RETURN", NearStart)
      s1 == handle_event(s0, "K_q", NearStart)
      s2 == Held(s1, {"DOWN"}, NearStart, 62, SteadyDraw)
  IN Held(s2, {"DOWN"}, NearStart + 62 * FrameStep, 63, SteadyDraw)

WallHorizon == NearStart + (125 + WallTicks) * FrameStep

WallKeys == {{}, {"DOWN"}, {"UP", "LEFT"}}

InitWall ==
  /\ game = OpeningWall
  /\ now = NearStart + 125 * FrameStep
  /\ pc = "loop"
  /\ charges_after_pulse = MAX_PULSE_USES

NextWall ==
  \/ \E ev \in {"K_q", "K_p"} : RunEvent(ev)
  \/ \E keys \in WallKeys : RunFrame(keys, FrameStep, SteadyDraw, WallHorizon)

SpecWall == InitWall /\ [][NextWall]_vars

\* =================================================================== claims
\* A step within one round: no reset_game between its two states.
SameRound == game.game_active /\ game'.game_active

DashActivated == game'.last_dash # game.last_dash
FocusActivated == game'.last_focus # game.last_focus
PulseActivated == game'.last_pulse # game.last_pulse
ShrinkActivated == game'.last_shrink # game.last_shrink

\* C1: within a round an ability is activated only when more than its
\* cooldown has elapsed since its previous activation (the timestamp becomes
\* the current clock value); a key press of focus, pulse or shrink, and a
\* held shift, at now - last_activation <= cooldown changes nothing of the
\* ability (a rejected key press changes no state at all, a rejected dash
\* moves at the base speed).
C1_CooldownRespected ==
  [][SameRound =>
      /\ DashActivated =>
           game'.last_dash = now /\ now - game.last_dash > DASH_COOLDOWN
      /\ FocusActivated =>
           game'.last_focus = now /\ now - game.last_focus > FOCUS_COOLDOWN
      /\ PulseActivated =>
           game'.last_pulse = now /\ now - game.last_pulse > PULSE_COOLDOWN
      /\ ShrinkActivated =>
           game'.last_shrink = now /\ now - game.last_shrink > SHRINK_COOLDOWN
      /\ (RunEvent("K_SPACE") /\ now - game.last_focus <= FOCUS_COOLDOWN)
           => game' = game
      /\ (RunEvent("K_e") /\ now - game.last_pulse <= PULSE_COOLDOWN)
           => game' = game
      /\ (RunEvent("K_q") /\ now - game.last_shrink <= SHRINK_COOLDOWN)
           => game' = game
      /\ (UpdateTick /\ now - game.last_dash <= DASH_COOLDOWN) =>
           /\ game'.last_dash = game.last_dash
           /\ Abs(game'.player_x - game.player_x) <= PLAYER_SPEED
           /\ Abs(game'.player_y - game.player_y) <= PLAYER_SPEED
           /\ game'.screen_shake <= game.screen_shake
  ]_vars

\* C1 witness: a second pulse in a row has just been accepted, more than
\* PULSE_COOLDOWN after the first (no charge was regained in between).
C1_SecondPulseAccepted ==
  /\ game.game_active
  /\ game.last_pulse = now
  /\ game.pulse_uses = MAX_PULSE_USES - 2
  /\ charges_after_pulse = MAX_PULSE_USES - 2

\* C2: a pulse key press with no charge left changes nothing, whether or
\* not the pulse cooldown has elapsed.
C2_NoChargeNoPulse ==
  [][(RunEvent("K_e") /\ game.pulse_uses = 0) =>
       /\ game'.enemies = game.enemies
       /\ game'.particles = game.particles
       /\ game'.last_pulse = game.last_pulse
       /\ game'.pulse_uses = 0
       /\ game'.screen_shake = game.screen_shake
  ]_vars

\* C2 witness: an active, unpaused round with no charge left and the pulse
\* cooldown elapsed, where only the missing charge rejects the key.
C2_NoChargeCooldownElapsed ==
  /\ game.game_active /\ ~game.paused
  /\ game.pulse_uses = 0
  /\ now - game.last_pulse > PULSE_COOLDOWN

\* C3: since the round's latest pulse use at last_pulse, at most one charge
\* is regained per full 2 * PULSE_COOLDOWN elapsed, and never more than
\* MAX_PULSE_USES are held.
C3_OneChargePerRegenPeriod ==
  /\ game.pulse_uses <= MAX_PULSE_USES
  /\ (game.game_active /\ game.last_pulse > 0) =>
       game.pulse_uses - charges_after_pulse
         <= (now - game.last_pulse) \div (2 * PULSE_COOLDOWN)

\* C4 as claimed: whatever the loop does at clock value now (an event, an
\* update tick, a paused or inactive iteration), after a shrink trigger at
\* last_shrink the size is 6 when now < last_shrink + 2000 and 12 otherwise.
C4_ShrinkWindowAsClaimed ==
  [][game'.last_shrink > 0 =>
       game'.player_size =
         IF now < game'.last_shrink + SHRINK_DURATION
         THEN PLAYER_SIZE \div 2 ELSE PLAYER_SIZE
  ]_vars

\* C4 amended: after a shrink trigger at last_shrink the size is 6 up to and
\* including clock value last_shrink + 2000, and stays 6 until the first
\* update tick whose clock is strictly greater; from that tick on it is 12.
C4_ShrinkUntilFirstLaterTick ==
  [][/\ (game'.last_shrink > 0 /\ now <= game'.last_shrink + SHRINK_DURATION)
          => game'.player_size = PLAYER_SIZE \div 2
     /\ (UpdateTick /\ now > game'.last_shrink + SHRINK_DURATION)
          => game'.player_size = PLAYER_SIZE
     /\ (game.player_size # PLAYER_SIZE /\ game'.player_size = PLAYER_SIZE)
          => \/ UpdateTick /\ now > game.last_shrink + SHRINK_DURATION
             \/ ~game.game_active
     /\ game'.player_size \in {PLAYER_SIZE, PLAYER_SIZE \div 2}
  ]_vars

\* C4 witness: a shrink has expired: the round has a shrink trigger behind
\* it and the size is back to 12.
C4_ShrinkExpired ==
  /\ game.game_active
  /\ game.last_shrink > 0
  /\ game.player_size = PLAYER_SIZE
  /\ ~game.is_shrunk

RoundEnds == game.game_active /\ ~game'.game_active

\* C5: every update tick sets the score to the clock minus the round's start
\* (in ms here), never negative; the score never decreases while the round
\* is active, is left alone by everything but an update tick, keeps the
\* value of the ending tick while no round is active, and restarts at 0 with
\* a new round.
C5_ScoreIsElapsedTime ==
  [][/\ UpdateTick =>
          /\ game'.score = Max(0, now - game.start_time)
          /\ game'.score = now - game.start_time
     /\ SameRound => game'.score >= game.score
     /\ (~UpdateTick /\ SameRound) => game'.score = game.score
     /\ (~game.game_active /\ ~game'.game_active) => game'.score = game.score
     /\ (~game.game_active /\ game'.game_active) =>
          game'.score = 0 /\ game'.start_time = now
  ]_vars

\* C5 witness: a round has ended and its score has stayed frozen while the
\* clock went on.
C5_ScoreFrozen ==
  /\ ~game.game_active
  /\ game.score > 0
  /\ now > game.start_time + game.score + FrameStep

\* Squared distance of enemy e from the player, in (1/PSCALE px)^2.
C6_Distance2(self, e) ==
  (e.x - self.player_x * PSCALE) * (e.x - self.player_x * PSCALE)
    + (e.y - self.player_y * PSCALE) * (e.y - self.player_y * PSCALE)

\* 5 * (player_size + 0.6 * e.size), in 1/PSCALE px.
C6_Threshold5(self, e) ==
  PSCALE * (5 * self.player_size + 3 * e.size)

\* C6: an update tick leaves the round ended exactly when, after the
\* enemies moved, some enemy's distance from the player is strictly less
\* than the player's current size + 0.6 times the enemy's size.
C6_CollisionEndsRound ==
  [][UpdateTick =>
       (~game'.game_active <=>
          \E i \in DOMAIN game'.enemies :
             25 * C6_Distance2(game', game'.enemies[i])
               < C6_Threshold5(game', game'.enemies[i])
                   * C6_Threshold5(game', game'.enemies[i]))
  ]_vars

\* C6 witness: the round is still active with an enemy exactly at the
\* threshold distance (the enemy has moved there from the initial gap).
C6_TouchingStillActive ==
  /\ game.game_active
  /\ \E i \in DOMAIN game.enemies :
        25 * C6_Distance2(game, game.enemies[i])
          = C6_Threshold5(game, game.enemies[i]) * C6_Threshold5(game, game.enemies[i])

\* C7: when a round ends the high score becomes the round's score exactly
\* when that score is strictly greater; the high score never decreases and
\* changes at no other step; polycore_score.json is written only in a tick
\* that ended a round with the high score beaten, with the new high score.
C7_HighScoreOnlyWhenBeaten ==
  [][/\ RoundEnds =>
          game'.high_score = IF game'.score > game.high_score
                             THEN game'.score ELSE game.high_score
     /\ game'.high_score >= game.high_score
     /\ game'.high_score # game.high_score => (RoundEnds /\ UpdateTick)
     /\ game'.score_file # game.score_file =>
          /\ RoundEnds /\ UpdateTick
          /\ game'.score > game.high_score
          /\ game'.score_file = <<game'.score>>
  ]_vars

\* C7 witness: a round has ended with the high score beaten and saved.
C7_BeatenAndSaved ==
  /\ ~game.game_active
  /\ game.score # NearTie
  /\ game.high_score = game.score
  /\ game.score_file = <<game.score>>

C9_StaysInside(e, tf2) ==
  /\ e.x + e.vx * tf2 >= 0 /\ e.x + e.vx * tf2 <= SCREEN_WIDTH * PSCALE
  /\ e.y + e.vy * tf2 >= 0 /\ e.y + e.vy * tf2 <= SCREEN_HEIGHT * PSCALE

C10_TriggerOnlyWhileIdle ==
  [][(SameRound /\ FocusActivated) => ~game.focus_active]_vars

\* C10 amended: a focus trigger is accepted exactly when more than
\* FOCUS_COOLDOWN has elapsed since the last accepted one, whether or not
\* focus_active is still set; it sets the end-time to the trigger time +
\* 3000; focus returns to idle at the first update tick whose clock exceeds
\* the end-time, and only there; a trigger accepted while focus_active is set
\* comes after the end-time.
C10_FocusStateMachine ==
  [][SameRound =>
      /\ (RunEvent("K_SPACE") /\ ~game.paused) =>
           (FocusActivated <=> now - game.last_focus > FOCUS_COOLDOWN)
      /\ FocusActivated =>
           /\ game'.focus_active
           /\ game'.last_focus = now
           /\ game'.focus_end_time = now + FOCUS_DURATION
           /\ (game.focus_active => now > game.focus_end_time)
      /\ (game.focus_active /\ ~game'.focus_active) =>
           UpdateTick /\ now > game.focus_end_time
      /\ (UpdateTick /\ game.focus_active /\ now > game.focus_end_time) =>
           ~game'.focus_active
      /\ (~game.focus_active /\ game'.focus_active) => FocusActivated
  ]_vars

\* C10 witness: focus was triggered in this round and is idle again.
C10_FocusExpired ==
  /\ game.game_active
  /\ game.last_focus > 0
  /\ ~game.focus_active

\* Enemy e after a move at twice the time factor tf2.
C11_Moved(e, tf2) == [e EXCEPT !.x = @ + e.vx * tf2, !.y = @ + e.vy * tf2]

\* -100 <= x <= SCREEN_WIDTH + 100 and -100 <= y <= SCREEN_HEIGHT + 100.
C11_InRectangle(e) ==
  /\ e.x >= (-100) * PSCALE /\ e.x <= (SCREEN_WIDTH + 100) * PSCALE
  /\ e.y >= (-100) * PSCALE /\ e.y <= (SCREEN_HEIGHT + 100) * PSCALE

\* C11: after an update tick every enemy in the list lies in the rectangle
\* that exceeds the screen by 100 on each side (borders included), and the
\* enemies the tick started with are still listed, moved and in order,
\* except exactly those whose moved position is outside the rectangle.
C11_RemovedOnlyOutside ==
  [][UpdateTick =>
       LET tf2   == IF game'.focus_active THEN 1 ELSE 2
           moved == [i \in DOMAIN game.enemies |-> C11_Moved(game.enemies[i], tf2)]
           kept  == SelectSeq(moved, C11_InRectangle)
       IN /\ \A i \in DOMAIN game'.enemies : C11_InRectangle(game'.enemies[i])
          /\ Len(game'.enemies) >= Len(kept)
          /\ SubSeq(game'.enemies, 1, Len(kept)) = kept
          /\ Len(game'.enemies) <= Len(kept) + 1
          /\ game'.spawn_timer = game.spawn_timer => game'.enemies = kept
  ]_vars

\* C11 witness: the round goes on with the drifting enemy removed (the
\* opening left three enemies).
C11_EnemyRemoved ==
  /\ game.game_active
  /\ game.start_time = NearStart
  /\ Len(game.enemies) = 2
  /\ now > NearStart + 160 * FrameStep

\* A step that spawned an enemy.
Spawned == game'.spawn_timer # game.spawn_timer

\* C12 as claimed: an update tick spawns exactly when now - spawn_timer is
\* greater than max(200, 1000 - 10 * score) ms, score in seconds (both sides
\* times 100 here, the score being held in ms).
C12_SpawnIntervalAsClaimed ==
  [][UpdateTick =>
       (Spawned <=>
          100 * (now - game.spawn_timer) > Max(200 * 100, 1000 * 100 - game'.score))
  ]_vars

\* Scores up to 100 s, in steps of 0.1 s and just below each step.
C12_Scores == {100 * k : k \in 0 .. 1000} \cup {100 * k + 99 : k \in 0 .. 1000}

\* max(200, 1000 - int(10 * score)), score in ms.
C12_Interval(score) == Max(200, 1000 - (score \div 100))

\* C12 amended: the spawn interval of an update tick is
\* max(200, 1000 - int(10 * score)) ms, the product truncated to a whole
\* number; it lies in 200 .. 1000 and does not grow with the score; the tick
\* spawns one enemy exactly when now - spawn_timer is strictly greater than
\* it, and spawn_timer then becomes now.
C12_SpawnIntervalTruncated ==
  [][UpdateTick =>
       /\ Spawned <=> now - game.spawn_timer > C12_Interval(game'.score)
       /\ Spawned => /\ game'.spawn_timer = now
                     /\ Len(game'.enemies) = Len(game.enemies) + 1
       /\ ~Spawned => Len(game'.enemies) = Len(game.enemies)
       /\ \A sc \in C12_Scores :
            /\ SpawnRate(sc) = C12_Interval(sc)
            /\ SpawnRate(sc) \in 200 .. 1000
            /\ SpawnRate(sc + 1) <= SpawnRate(sc)
  ]_vars

\* C12 witness: a tick ran exactly one truncated interval after the last
\* spawn, 10 * score not being whole, and did not spawn.
C12_NotDueAtInterval ==
  /\ game.game_active
  /\ game.score % 100 # 0
  /\ game.score + game.start_time - game.spawn_timer = C12_Interval(game.score)
  /\ Len(game.enemies) = 1

\* A pattern re-draw: pattern_timer takes the clock value of the tick
\* (reset_game sets it to 0; a re-draw happens at a clock value above 0).
PatternRedrawn ==
  game'.pattern_timer # game.pattern_timer /\ game'.pattern_timer # 0

\* C13: the pattern is re-drawn exactly in the update ticks (round active,
\* not paused) in which more than 10000 ms have elapsed since pattern_timer,
\* the clock value of the round's previous re-draw (0 when the round has had
\* none); the re-draw sets pattern_timer to the clock and the pattern to one
\* of the 8 patterns, so two consecutive re-draws of a round are more than
\* 10000 ms apart.  The decision reads the clock and pattern_timer only (not
\* the score).  Apart from re-draws the pattern and its timer change only in
\* reset_game, to RANDOM and 0.
C13_RedrawOnlyAfterPeriod ==
  [][/\ PatternRedrawn <=>
          (UpdateTick /\ now - game.pattern_timer > PATTERN_PERIOD)
     /\ PatternRedrawn =>
          /\ game'.pattern_timer = now
          /\ game'.current_pattern \in Pattern
          /\ game.pattern_timer # 0 =>
               game'.pattern_timer - game.pattern_timer > PATTERN_PERIOD
     /\ ~PatternRedrawn =>
          \/ /\ game'.current_pattern = game.current_pattern
             /\ game'.pattern_timer = game.pattern_timer
          \/ /\ ~game.game_active
             /\ game'.game_active
             /\ game'.current_pattern = "RANDOM"
             /\ game'.pattern_timer = 0]_vars

\* The second tick of a round started after MenuWait re-drew the pattern,
\* as its first did (every tick of such a round spawns an enemy), and the
\* draw gave ORBIT; the score at the re-draw is not a multiple of the period.
C13_SecondRedraw ==
  /\ game.start_time >= MenuWait
  /\ Len(game.enemies) = 2
  /\ game.pattern_timer = game.spawn_timer
  /\ game.current_pattern = "ORBIT"
  /\ game.score % PATTERN_PERIOD # 0
  /\ game.score = game.pattern_timer - game.start_time

\* The place where the tick's spawn put the new enemy (the last of the list):
\* update_enemies has moved it once since.
C14_SpawnedAt ==
  LET e == game'.enemies[Len(game'.enemies)]
  IN [x |-> e.x - e.vx * TimeFactor2(game'),
      y |-> e.y - e.vy * TimeFactor2(game')]

C14_OnRing(pos, radius) ==
  LET dx == pos.x - (SCREEN_WIDTH \div 2) * PSCALE
      dy == pos.y - (SCREEN_HEIGHT \div 2) * PSCALE
  IN dx * dx + dy * dy = (radius * PSCALE) * (radius * PSCALE)

C14_OutsideAnEdge(pos) ==
  \/ pos.y = (-50) * PSCALE /\ pos.x \in 0..(SCREEN_WIDTH * PSCALE)
  \/ pos.y = (SCREEN_HEIGHT + 50) * PSCALE /\ pos.x \in 0..(SCREEN_WIDTH * PSCALE)
  \/ pos.x = (-50) * PSCALE /\ pos.y \in 0..(SCREEN_HEIGHT * PSCALE)
  \/ pos.x = (SCREEN_WIDTH + 50) * PSCALE /\ pos.y \in 0..(SCREEN_HEIGHT * PSCALE)

C14_PlacedAsClaimed(pattern, pos) ==
  IF pattern \in {"CIRCLE", "ORBIT"} THEN C14_OnRing(pos, 500)
  ELSE IF pattern = "SPIRAL" THEN C14_OnRing(pos, 400)
  ELSE IF pattern = "WAVE" THEN pos.x \in {0, SCREEN_WIDTH * PSCALE}
  ELSE C14_OutsideAnEdge(pos)

\* C14: a tick that spawns puts the new enemy on the ring of radius 500
\* around the screen centre when the pattern is CIRCLE or ORBIT, at radius
\* 400 when SPIRAL, at x = 0 or x = SCREEN_WIDTH when WAVE, and 50 outside
\* one of the four edges for every other pattern.
C14_PlacedByPattern ==
  [][(UpdateTick /\ game'.spawn_timer # game.spawn_timer) =>
       C14_PlacedAsClaimed(game.current_pattern, C14_SpawnedAt)]_vars

\* C15: when run() has returned after QUIT or escape during an active round
\* whose score exceeds the high score, the score file holds that score.
C15_FlushedOnQuit ==
  (pc = "done" /\ game.game_active /\ game.score > game.high_score) =>
    game.score_file = <<game.score>>

\* C17: load_high_score gives 0 when there is no readable file; a tick that
\* ends a round with the high score beaten sets high_score to the score and
\* game_active to FALSE whatever save_high_score met, the file then holds
\* the new high score, or what it held, or nothing readable, and run() goes
\* on iterating.
C17_SaveFailureIgnored ==
  [][/\ load_high_score(NoFile) = 0
     /\ (UpdateTick /\ RoundEnds /\ game'.score > game.high_score) =>
          /\ game'.high_score = game'.score
          /\ ~game'.game_active
          /\ game'.running = game.running
          /\ game.running => pc' = "loop"
          /\ game'.score_file \in {<<game'.high_score>>, game.score_file, NoFile}
          /\ load_high_score(game'.score_file) \in {game'.high_score, game.high_score, 0}
    ]_vars

\* A round was started after one whose new high score was not saved: the
\* file of 40 s is still there, or nothing readable is.
C17_NextRoundAfterFailedSave ==
  /\ game.game_active
  /\ game.start_time > NearStart
  /\ game.high_score > 0
  /\ game.high_score # load_high_score(game.score_file)
  /\ pc = "loop"

\* Squared distance enemy-player before the step, in (1/PSCALE px)^2.
C18_Distance2(i) ==
  (game.enemies[i].x - game.player_x * PSCALE) * (game.enemies[i].x - game.player_x * PSCALE)
  + (game.enemies[i].y - game.player_y * PSCALE) * (game.enemies[i].y - game.player_y * PSCALE)

C18_Affected ==
  {i \in DOMAIN game.enemies : C18_Distance2(i) < (150 * PSCALE) * (150 * PSCALE)}

\* dv is (d / distance) * (200 / distance) in 1/VSCALE px per tick, rounded
\* down, for the coordinate difference d (in 1/PSCALE px).
C18_IsKick(dv, d, d2) ==
  /\ dv * d2 <= 200 * d * PSCALE * VSCALE
  /\ 200 * d * PSCALE * VSCALE < (dv + 1) * d2

\* C18: a pulse is accepted only with a charge left and more than 3000 ms
\* after the previous one; it adds 200/d along the unit vector from the
\* player to the velocity of exactly the enemies at distance d < 150 (none
\* when d = 0), leaves the others and every position and size untouched,
\* appends 5 particles per enemy in range, takes one charge, sets last_pulse
\* to the clock and screen_shake to 10.
C18_PulseEffect ==
  [][PulseActivated =>
       /\ game.pulse_uses > 0
       /\ now - game.last_pulse > 3000
       /\ DOMAIN game'.enemies = DOMAIN game.enemies
       /\ \A i \in DOMAIN game.enemies :
            LET e == game.enemies[i]
                f == game'.enemies[i]
            IN /\ f.x = e.x /\ f.y = e.y /\ f.size = e.size
               /\ i \notin C18_Affected => f = e
               /\ (i \in C18_Affected /\ C18_Distance2(i) = 0) => f = e
               /\ (i \in C18_Affected /\ C18_Distance2(i) > 0) =>
                    /\ C18_IsKick(f.vx - e.vx, e.x - game.player_x * PSCALE,
                                  C18_Distance2(i))
                    /\ C18_IsKick(f.vy - e.vy, e.y - game.player_y * PSCALE,
                                  C18_Distance2(i))
       /\ Len(game'.particles) = Len(game.particles) + 5 * Cardinality(C18_Affected)
       /\ game'.pulse_uses = game.pulse_uses - 1
       /\ game'.last_pulse = now
       /\ game'.screen_shake = 10]_vars

\* A pulse has just kicked the first enemy back and left the second, which
\* is out of range, as it was.
C18_OneOfTwoKicked ==
  /\ game.last_pulse = now
  /\ game.screen_shake = 10
  /\ game.pulse_uses = MAX_PULSE_USES - 1
  /\ Len(game.enemies) = 2
  /\ game.enemies[1].vx < 0
  /\ Dist2(game, game.enemies[2]) >= (150 * PSCALE) * (150 * PSCALE)
  /\ Len(game.particles) = 5

\* The number of particles of a list with the given life.
C20_Count(particles, life) ==
  Cardinality({i \in DOMAIN particles : particles[i].life = life})

\* Update ticks since the round's latest pulse (no iteration of SpecPulse
\* is paused, and each takes FrameStep ms).
C20_TicksSincePulse == (now - game.last_pulse) \div FrameStep

\* While the round is active every particle of the latest pulse has lost one
\* life per tick since, and none is left from the 30th tick on.
C20_Lifetime ==
  /\ \A i \in DOMAIN game.particles : game.particles[i].life \in 1..30
  /\ (game.game_active /\ game.last_pulse # 0) =>
       IF C20_TicksSincePulse < 30
       THEN \A i \in DOMAIN game.particles :
              game.particles[i].life = 30 - C20_TicksSincePulse
       ELSE game.particles = <<>>

\* C20: particles are created with life 30 (by a pulse, after the ones
\* there are); an update tick takes 1 life from every particle and removes
\* the ones that reach 0, keeping the others; no other step within a round
\* changes the list; so every particle has a life in 1..30 and is removed
\* in the 30th update tick after its creation.
C20_ParticleLife ==
  [][/\ C20_Lifetime /\ C20_Lifetime'
     /\ PulseActivated =>
          /\ Len(game'.particles) >= Len(game.particles)
          /\ \A i \in DOMAIN game'.particles :
               IF i <= Len(game.particles)
               THEN game'.particles[i] = game.particles[i]
               ELSE game'.particles[i].life = 30
     /\ UpdateTick =>
          /\ \A life \in 1..30 :
               C20_Count(game'.particles, life) = C20_Count(game.particles, life + 1)
          /\ Len(game'.particles) = Len(game.particles) - C20_Count(game.particles, 1)
     /\ (~PulseActivated /\ ~UpdateTick /\ game'.start_time = game.start_time) =>
          game'.particles = game.particles]_vars

\* The particles of a pulse are in their last tick, in a round that is
\* still active.
C20_LastTick ==
  /\ game.game_active
  /\ game.particles # <<>>
  /\ \A i \in DOMAIN game.particles : game.particles[i].life = 1
  /\ C20_TicksSincePulse = 29

C19_Keys == SUBSET {"LEFT", "RIGHT", "UP", "DOWN", "SHIFT"}

\* One axis of handle_input: from position at, with the keys toward 0 and
\* toward the far side held or not, by the step, within lo..hi.
C19_Stepped(to, at, back, forth, step, lo, hi) ==
  IF back /\ ~forth THEN to = (IF at - step < lo THEN lo ELSE at - step)
  ELSE IF forth /\ ~back THEN to = (IF at + step > hi THEN hi ELSE at + step)
  ELSE IF ~back /\ ~forth THEN to = at
  ELSE to \in lo..hi /\ to - at \in (-step)..step

\* What handle_input does in the state with the held keys: the step is 100
\* in a dash tick and 5 otherwise.
C19_InputAsClaimed(keys) ==
  LET dash == "SHIFT" \in keys /\ now - game.last_dash > 1000
      step == IF dash THEN 100 ELSE 5
      after == handle_input(game, keys, now)
  IN /\ after.last_dash = IF dash THEN now ELSE game.last_dash
     /\ after.screen_shake = IF dash THEN 5 ELSE game.screen_shake
     /\ C19_Stepped(after.player_x, game.player_x, "LEFT" \in keys, "RIGHT" \in keys,
                    step, game.player_size, SCREEN_WIDTH - game.player_size)
     /\ C19_Stepped(after.player_y, game.player_y, "UP" \in keys, "DOWN" \in keys,
                    step, game.player_size, SCREEN_HEIGHT - game.player_size)
     /\ after = [game EXCEPT !.last_dash = after.last_dash,
                             !.screen_shake = after.screen_shake,
                             !.player_x = after.player_x,
                             !.player_y = after.player_y]

\* C19: with shift held and more than 1000 ms since last_dash, handle_input
\* steps by 100 instead of 5 for every held direction (clamped to the
\* screen), sets last_dash to the clock and screen_shake to 5, also with no
\* direction held; otherwise it steps by 5 and leaves both alone.  So a tick
\* that dashes runs more than 1000 ms after the previous dash, moves the
\* player by at most 100 per axis and ends with screen_shake at 4 (the 5
\* less the tick's decay); every other tick moves the player by at most 5
\* per axis; last_dash changes in no other step of a round.
C19_DashStep ==
  [][/\ (game.game_active /\ ~game.paused) =>
          \A keys \in C19_Keys : C19_InputAsClaimed(keys)
     /\ (DashActivated /\ SameRound) =>
          /\ UpdateTick
          /\ now - game.last_dash > 1000
          /\ game'.last_dash = now
          /\ game'.screen_shake = 4
          /\ Abs(game'.player_x - game.player_x) <= 100
          /\ Abs(game'.player_y - game.player_y) <= 100
     /\ (UpdateTick /\ ~DashActivated) =>
          /\ Abs(game'.player_x - game.player_x) <= 5
          /\ Abs(game'.player_y - game.player_y) <= 5
     /\ (~UpdateTick /\ SameRound) =>
          /\ game'.player_x = game.player_x
          /\ game'.player_y = game.player_y]_vars

\* A tick has dashed with no direction held: the player is still in the
\* corner.
C19_DashedInPlace ==
  /\ game.game_active
  /\ game.last_dash = now - FrameStep
  /\ game.screen_shake = 4
  /\ game.player_x = game.player_size
  /\ game.player_y = SCREEN_HEIGHT - game.player_size

\* The round is inactive or paused.
C16_Idle == ~game.game_active \/ game.paused

\* The simulation state.
C16_Simulation(self) ==
  <<self.player_x, self.player_y, self.player_size, self.enemies, self.particles,
    self.score, self.difficulty_multiplier, self.spawn_timer, self.pattern_timer,
    self.current_pattern, self.screen_shake, self.pulse_uses,
    self.focus_active, self.is_shrunk, self.focus_end_time, self.shrink_end_time,
    self.last_dash, self.last_focus, self.last_pulse, self.last_shrink>>

\* C16: a step taken while the round is inactive or paused leaves the
\* simulation state as it is, unless it is return starting a round; in such
\* a state the keys of focus, pulse and shrink do nothing at all, and the
\* rest of the iteration does nothing whatever keys are held (shift too).
C16_IdleUnchanged ==
  [][C16_Idle =>
       /\ \/ C16_Simulation(game') = C16_Simulation(game)
          \/ /\ ~game.game_active
             /\ game' = handle_event(game, "K_RETURN", now)
       /\ \A ev \in {"K_SPACE", "K_e", "K_q"} : handle_event(game, ev, now) = game
       /\ \A keys \in SUBSET {"LEFT", "RIGHT", "UP", "DOWN", "SHIFT"} :
            frame(game, keys, now, SteadyDraw) = game]_vars

\* A paused round, two iterations or more after its latest tick, with
\* particles and screen shake left from a pulse and focus and shrink on.
C16_PausedMidEffects ==
  /\ game.game_active
  /\ game.paused
  /\ now - (game.start_time + game.score) > 2 * FrameStep
  /\ game.particles # <<>>
  /\ game.screen_shake > 0
  /\ game.focus_active
  /\ game.is_shrunk

\* A round starts: return is handled while no round is active.
RoundStarts == ~game.game_active /\ game'.game_active

C21_InRange == game.pulse_uses \in 0..5

\* C21: pulse_uses is always within 0..5; it goes down only by 1, in an
\* accepted pulse, from a count above 0; it goes up only by 1 in an update
\* tick, from a count below 5 (regeneration, more than 6000 ms after the
\* last pulse), or to 5 at the start of a round; every start of a round
\* leaves it at 5.
C21_ChargesInRange ==
  [][/\ C21_InRange /\ C21_InRange'
     /\ game'.pulse_uses < game.pulse_uses =>
          /\ PulseActivated
          /\ game.game_active /\ ~game.paused
          /\ game.pulse_uses > 0
          /\ game'.pulse_uses = game.pulse_uses - 1
     /\ game'.pulse_uses > game.pulse_uses =>
          /\ game.pulse_uses < 5
          /\ \/ /\ UpdateTick
                /\ game'.pulse_uses = game.pulse_uses + 1
                /\ now - game.last_pulse > 6000
             \/ RoundStarts /\ game'.pulse_uses = 5
     /\ RoundStarts => game'.pulse_uses = 5]_vars

\* The last charge has been used and none has come back yet.
C21_NoChargeLeft ==
  /\ game.game_active
  /\ game.pulse_uses = 0
  /\ game.last_pulse > 0

C22_PausedIsActive == game.paused => game.game_active

\* C22: a paused state is a state of an active round; paused changes only
\* while a round is active (and stays active); no round ends while paused;
\* a round starts from a state that is not paused and starts not paused.
C22_PausedOnlyInRound ==
  [][/\ C22_PausedIsActive /\ C22_PausedIsActive'
     /\ game'.paused # game.paused => (game.game_active /\ game'.game_active)
     /\ game.paused => ~RoundEnds
     /\ RoundStarts => (~game.paused /\ ~game'.paused)]_vars

\* A round has been paused for three iterations or more with an enemy
\* less than 50 px from the player, and is still active.
C22_PausedBeforeImpact ==
  /\ game.paused
  /\ game.game_active
  /\ now - (game.start_time + game.score) >= 3 * FrameStep
  /\ \E i \in DOMAIN game.enemies :
        Dist2(game, game.enemies[i]) < (50 * PSCALE) * (50 * PSCALE)

\* C23: in an active round the player's circle lies inside the screen for
\* its current size.
C23_CircleInsideScreen ==
  game.game_active =>
    /\ game.player_x \in game.player_size..(SCREEN_WIDTH - game.player_size)
    /\ game.player_y \in game.player_size..(SCREEN_HEIGHT - game.player_size)

\* C24: the start of a round leaves the four timestamps at 0, pulse_uses at
\* 5, focus and shrink off, the player's size at 12 and no enemy and no
\* particle; in the state it leaves, at the clock value of the start, focus
\* is accepted exactly when the clock exceeds 10000, the pulse when it
\* exceeds 3000, shrink when it exceeds 8000 and the dash when it exceeds
\* 1000, whatever the round before did.
C24_CooldownsRestart ==
  [][RoundStarts =>
       /\ game'.last_dash = 0 /\ game'.last_focus = 0
       /\ game'.last_pulse = 0 /\ game'.last_shrink = 0
       /\ game'.pulse_uses = 5
       /\ ~game'.focus_active /\ ~game'.is_shrunk
       /\ game'.player_size = 12
       /\ game'.enemies = <<>> /\ game'.particles = <<>>
       /\ handle_event(game', "K_SPACE", now).focus_active <=> now > 10000
       /\ handle_event(game', "K_e", now).pulse_uses = 4 <=> now > 3000
       /\ handle_event(game', "K_q", now).is_shrunk <=> now > 8000
       /\ handle_input(game', {"SHIFT"}, now).last_dash = now <=> now > 1000
    ]_vars

\* A pulse has just been accepted in a second round, less than the pulse
\* cooldown after the pulse of the first round (at clock NearStart), and
\* from a full count of charges.
C24_PulseSoonAfterRestart ==
  /\ game.game_active
  /\ game.start_time > NearStart
  /\ game.last_pulse = now
  /\ now - NearStart <= PULSE_COOLDOWN
  /\ game.pulse_uses = MAX_PULSE_USES - 1

C25_SizeAgrees(self) ==
  self.player_size = IF self.is_shrunk THEN 6 ELSE 12

\* C25: player_size is 6 exactly while is_shrunk is true and 12 otherwise,
\* before and after every step; a step changes the flag exactly when it
\* changes the size; and while is_shrunk is true no step but the start of a
\* round touches the shrink's timestamp or its end time, so a trigger in
\* that state is rejected even when the cooldown has elapsed.
C25_SizeFollowsShrink ==
  [][/\ C25_SizeAgrees(game) /\ C25_SizeAgrees(game')
     /\ (game'.is_shrunk # game.is_shrunk) <=> (game'.player_size # game.player_size)
     /\ game.is_shrunk /\ ~RoundStarts =>
          /\ game'.last_shrink = game.last_shrink
          /\ game'.shrink_end_time = game.shrink_end_time
    ]_vars

\* The round is running with the player still shrunk although the shrink's
\* cooldown has elapsed (the round was paused meanwhile): the trigger is
\* held back by the flag alone.
C25_ShrunkPastCooldown ==
  /\ game.game_active /\ ~game.paused
  /\ game.is_shrunk /\ game.player_size = 6
  /\ now - game.last_shrink > SHRINK_COOLDOWN

====
